---- MODULE Spec2Model ----
(***************************************************************************)
(* Model of the rust-playground repository.                                *)
(*                                                                         *)
(* keyvaluemap: an ordered key-value map backed by an AA tree              *)
(* (src/keyvaluemap/src/main.rs).  A tree is either Nil (Rust's None) or a *)
(* 4-tuple <<value, left, right, level>> in the field order of TreeNode.   *)
(* A KeyValuePair is <<key, value>> where value is an Option: <<>> for     *)
(* None and <<v>> for Some(v).                                             *)
(***************************************************************************)
EXTENDS Integers, Sequences, FiniteSets, TLC

\* ------------------------------------------------------------------------
\* Bounds of the model
\* ------------------------------------------------------------------------
MaxKey == 6

Keys == 0 .. (MaxKey - 1)

\* V is an unconstrained type parameter: the code stores, moves and returns
\* values and never inspects them.  Two payloads tell a kept value from an
\* offered one.
Values == {"v1", "v2"}

\* ------------------------------------------------------------------------
\* Option, TreeNode and KeyValuePair
\* ------------------------------------------------------------------------
Nil == <<>>
Some(x) == <<x>>
unwrap(o) == o[1]

TreeNode(v, l, r, lv) == <<v, l, r, lv>>
value(t) == t[1]
left(t) == t[2]
right(t) == t[3]

\* assignment to one field of a node: t.value = v, t.left = l, t.right = r
set_value(t, v) == [t EXCEPT ![1] = v]
set_left(t, l) == [t EXCEPT ![2] = l]
set_right(t, r) == [t EXCEPT ![3] = r]

KeyValuePair(k, v) == <<k, v>>
key(p) == p[1]
val(p) == p[2]

\* impl PartialOrd for KeyValuePair: the order looks at the key only
partial_cmp(a, b) ==
    IF key(a) = key(b) THEN "Equal"
    ELSE IF key(a) < key(b) THEN "Less"
    ELSE "Greater"

\* mutant of lt: `<=` where the code has `<`
lt_or_equal(a, b) == partial_cmp(a, b) # "Greater"

lt(a, b) == partial_cmp(a, b) = "Less"

\* mutant of gt: `>=` where the code has `>`
gt_or_equal(a, b) == partial_cmp(a, b) # "Less"

gt(a, b) == partial_cmp(a, b) = "Greater"

\* the closure `level` of decrease_level: None counts as level 0
level(node) == IF node = Nil THEN 0 ELSE node[4]

\* ------------------------------------------------------------------------
\* Rotation primitives
\* ------------------------------------------------------------------------
\* mutant of skew: the levels compared with `>`, so that it never rotates
skew_wrong_compare(root) ==
    IF root = Nil THEN Nil
    ELSE IF left(root) = Nil THEN root
    ELSE LET t == root
             l == left(root)
         IN IF level(l) > level(t)
            THEN TreeNode(value(l), left(l),
                          TreeNode(value(t), right(l), right(t), level(t)),
                          level(l))
            ELSE t

\* variant: the old root takes the left child's left subtree, not its right
skew_takes_left_left(root) ==
    IF root = Nil THEN Nil
    ELSE IF left(root) = Nil THEN root
    ELSE LET t == root
             l == left(root)
         IN IF level(l) = level(t)
            THEN TreeNode(value(l), left(l),
                          TreeNode(value(t), left(l), right(t), level(t)),
                          level(l))
            ELSE t

skew(root) ==
    IF root = Nil THEN Nil
    ELSE IF left(root) = Nil THEN root
    ELSE LET t == root
             l == left(root)
         IN IF level(l) = level(t)
            THEN TreeNode(value(l), left(l),
                          TreeNode(value(t), right(l), right(t), level(t)),
                          level(l))
            ELSE t

\* mutant of split: the rotation without `r.level += 1`
split_no_promotion(root) ==
    IF root = Nil THEN Nil
    ELSE IF right(root) = Nil THEN root
    ELSE LET t == root
             r == right(root)
         IN IF right(r) # Nil /\ level(t) = level(right(r))
            THEN TreeNode(value(r),
                          TreeNode(value(t), left(t), left(r), level(t)),
                          right(r),
                          level(r))
            ELSE t

\* variant: the promoted node goes up two levels
split_double_promotion(root) ==
    IF root = Nil THEN Nil
    ELSE IF right(root) = Nil THEN root
    ELSE LET t == root
             r == right(root)
         IN IF right(r) # Nil /\ level(t) = level(right(r))
            THEN TreeNode(value(r),
                          TreeNode(value(t), left(t), left(r), level(t)),
                          right(r),
                          level(r) + 2)
            ELSE t

split(root) ==
    IF root = Nil THEN Nil
    ELSE IF right(root) = Nil THEN root
    ELSE LET t == root
             r == right(root)
         IN IF right(r) # Nil /\ level(t) = level(right(r))
            THEN TreeNode(value(r),
                          TreeNode(value(t), left(t), left(r), level(t)),
                          right(r),
                          level(r) + 1)
            ELSE t

\* ------------------------------------------------------------------------
\* insert: recursive descent, skew then split on every frame.
\* Returns <<res, tree>>.
\* ------------------------------------------------------------------------
\* mutant of insert: an equal key overwrites the stored pair
RECURSIVE insert_overwrite(_, _)
insert_overwrite(root, x) ==
    LET rt == IF root = Nil THEN <<TRUE, x>>
              ELSE IF lt(value(x), value(root))
                   THEN LET rs == insert_overwrite(left(root), x)
                        IN <<rs[1], set_left(root, rs[2])>>
              ELSE IF gt(value(x), value(root))
                   THEN LET rs == insert_overwrite(right(root), x)
                        IN <<rs[1], set_right(root, rs[2])>>
              ELSE <<FALSE, set_value(root, value(x))>>
    IN <<rt[1], split(skew(rt[2]))>>

RECURSIVE insert(_, _)
insert(root, x) ==
    LET rt == IF root = Nil THEN <<TRUE, x>>
              ELSE IF lt(value(x), value(root))
                   THEN LET rs == insert(left(root), x)
                        IN <<rs[1], set_left(root, rs[2])>>
              ELSE IF gt(value(x), value(root))
                   THEN LET rs == insert(right(root), x)
                        IN <<rs[1], set_right(root, rs[2])>>
              ELSE <<FALSE, root>>
    IN <<rt[1], split(skew(rt[2]))>>

\* ------------------------------------------------------------------------
\* decrease_level
\* ------------------------------------------------------------------------
\* mutant of decrease_level: the target level without the `+ 1`
decrease_level_no_plus_one(root) ==
    LET t == root
        new_level == IF level(left(t)) < level(right(t))
                     THEN level(left(t)) ELSE level(right(t))
    IN IF new_level < level(t)
       THEN LET r == right(t)
                r2 == IF r # Nil /\ new_level < level(r)
                      THEN TreeNode(value(r), left(r), right(r), new_level)
                      ELSE r
            IN TreeNode(value(t), left(t), r2, new_level)
       ELSE t

\* mutant of decrease_level: the level is never lowered
decrease_level_never(root) == root

\* variant: the right child's level is left as it was
decrease_level_right_untouched(root) ==
    LET t == root
        new_level == (IF level(left(t)) < level(right(t))
                      THEN level(left(t)) ELSE level(right(t))) + 1
    IN IF new_level < level(t)
       THEN TreeNode(value(t), left(t), right(t), new_level)
       ELSE t

decrease_level(root) ==
    LET t == root
        new_level == (IF level(left(t)) < level(right(t))
                      THEN level(left(t)) ELSE level(right(t))) + 1
    IN IF new_level < level(t)
       THEN LET r == right(t)
                r2 == IF r # Nil /\ new_level < level(r)
                      THEN TreeNode(value(r), left(r), right(r), new_level)
                      ELSE r
            IN TreeNode(value(t), left(t), r2, new_level)
       ELSE t

\* ------------------------------------------------------------------------
\* The rebalancing sequence that ends predecessor, successor and delete
\* ("// Rebalance subtree"), the same statements in all three:
\*   tree = skew(decrease_level(Some(tree))).unwrap();
\*   tree.right = skew(tree.right);
\*   if let Some(mut r) = tree.right { r.right = skew(r.right); tree.right = Some(r); }
\*   tree = split(Some(tree)).unwrap();
\*   tree.right = split(tree.right);
\* ------------------------------------------------------------------------
\* variant: `r.right = skew(r.right)` left out
skew_right_right_skipped(tree) == tree

skew_right_right(tree) ==
    IF right(tree) # Nil
    THEN set_right(tree, set_right(right(tree), skew(right(right(tree)))))
    ELSE tree

\* variant: `tree.right = skew(tree.right)` left out
skew_right_skipped(tree) == tree

skew_right(tree) == set_right(tree, skew(right(tree)))

split_right(tree) == set_right(tree, split(right(tree)))

\* variant: the two split statements that end the sequence left out
rebalance_without_split(tree) ==
    skew_right_right(skew_right(skew(decrease_level(tree))))

rebalance(tree) ==
    split_right(split(skew_right_right(skew_right(skew(decrease_level(tree))))))

\* ------------------------------------------------------------------------
\* Fused predecessor / successor extraction.
\* Both return <<remainder, deleted>>.
\* ------------------------------------------------------------------------
RECURSIVE predecessor(_)
predecessor(t) ==
    IF right(t) = Nil
    THEN <<left(t), set_left(t, Nil)>>
    ELSE LET ps == predecessor(right(t))
         IN <<rebalance(set_right(t, ps[1])), ps[2]>>

\* variant: `t.left = sub` left out, the subtree keeps the extracted node
RECURSIVE successor_keeps_left(_)
successor_keeps_left(t) ==
    IF left(t) = Nil
    THEN <<right(t), set_right(t, Nil)>>
    ELSE LET ss == successor_keeps_left(left(t))
         IN <<rebalance(t), ss[2]>>

RECURSIVE successor(_)
successor(t) ==
    IF left(t) = Nil
    THEN <<right(t), set_right(t, Nil)>>
    ELSE LET ss == successor(left(t))
         IN <<rebalance(set_left(t, ss[1])), ss[2]>>

\* ------------------------------------------------------------------------
\* delete: returns <<tree, deleted>> where deleted is an Option of a node.
\* ------------------------------------------------------------------------
\* The two replacement arms of delete, before the rebalancing: the extracted
\* node comes out of the child subtree, then
\*   std::mem::swap(&mut t.value, &mut succ.value)
\* leaves its pair in t and the matched pair in the node handed back.
\* Both return <<t, Some(extracted)>>.
replace_with_successor(t) ==
    LET ss == successor(right(t))
    IN <<set_value(set_right(t, ss[1]), value(ss[2])),
         Some(set_value(ss[2], value(t)))>>

\* variant: the values of t and of the extracted node are not swapped
replace_with_predecessor_no_swap(t) ==
    LET ps == predecessor(left(t))
    IN <<set_left(t, ps[1]), Some(ps[2])>>

replace_with_predecessor(t) ==
    LET ps == predecessor(left(t))
    IN <<set_value(set_left(t, ps[1]), value(ps[2])),
         Some(set_value(ps[2], value(t)))>>

\* "// Rebalance subtree" applied to the tree of a <<tree, deleted>> pair
rebalance_first(p) == <<rebalance(p[1]), p[2]>>

RECURSIVE delete(_, _)
delete(root, x) ==
    IF root = Nil THEN <<Nil, Nil>>
    ELSE LET t == root
         IN IF lt(x, value(t))
            THEN LET ds == delete(left(t), x)
                 IN <<rebalance(set_left(t, ds[1])), ds[2]>>
            ELSE IF gt(x, value(t))
            THEN LET ds == delete(right(t), x)
                 IN <<rebalance(set_right(t, ds[1])), ds[2]>>
            ELSE IF left(t) = Nil /\ right(t) = Nil
            THEN <<Nil, Some(t)>>
            ELSE IF left(t) = Nil
            THEN \* Find next largest item for replacement
                 rebalance_first(replace_with_successor(t))
            ELSE \* Find next smallest item for replacement
                 rebalance_first(replace_with_predecessor(t))

\* ------------------------------------------------------------------------
\* KeyValueMap::find: iterative descent; returns an Option of a pair
\* ------------------------------------------------------------------------
\* mutant of find: the descent takes the wrong child
RECURSIVE find_wrong_child(_, _)
find_wrong_child(cursor, k) ==
    IF cursor = Nil THEN Nil
    ELSE IF k < key(value(cursor)) THEN find_wrong_child(right(cursor), k)
    ELSE IF k > key(value(cursor)) THEN find_wrong_child(left(cursor), k)
    ELSE IF k = key(value(cursor))
         THEN Some(KeyValuePair(key(value(cursor)), Some(unwrap(val(value(cursor))))))
    ELSE Nil

RECURSIVE find(_, _)
find(cursor, k) ==
    IF cursor = Nil THEN Nil
    ELSE IF k < key(value(cursor)) THEN find(left(cursor), k)
    ELSE IF k > key(value(cursor)) THEN find(right(cursor), k)
    ELSE IF k = key(value(cursor))
         THEN Some(KeyValuePair(key(value(cursor)), Some(unwrap(val(value(cursor))))))
    ELSE Nil

\* ------------------------------------------------------------------------
\* Observers used by the properties
\* ------------------------------------------------------------------------
RECURSIVE inorder(_)
inorder(t) ==
    IF t = Nil THEN <<>>
    ELSE inorder(left(t)) \o <<value(t)>> \o inorder(right(t))

RECURSIVE size(_)
size(t) == IF t = Nil THEN 0 ELSE size(left(t)) + 1 + size(right(t))

\* every non-absent subtree of t, i.e. every node together with what hangs below it
RECURSIVE Nodes(_)
Nodes(t) == IF t = Nil THEN {} ELSE {t} \cup Nodes(left(t)) \cup Nodes(right(t))

StrictlyIncreasing(s) == \A a, b \in 1 .. Len(s) : a < b => key(s[a]) < key(s[b])

\* ------------------------------------------------------------------------
\* State: the KeyValueMap {count, root}, the abstract finite map run beside
\* it, and the last call with its outcome (ok: insert returned true, delete
\* or find returned Some).  pc and x are the position and the loop variable
\* of main; they stay put while the map is driven through its API alone.
\* ------------------------------------------------------------------------
VARIABLES root, count, abs, last, pc, x

\* State of the combinatorial iterators (src/combinatorial/src/lib.rs): which
\* iterator is driven, the arguments of its new, the Result of new, the
\* results handed out by next so far and the number of calls of next that
\* returned None.  It stays put while the map is driven.
VARIABLES kind, source, output_size, iter, outs, nones

\* The two LifeBoards x and y of the game of life's main (both of board_size,
\* cells row by row) and which of them was written last.
VARIABLES board_size, xcells, ycells, lifepc

mapVars == <<root, count, abs, last, pc, x>>
iterVars == <<kind, source, output_size, iter, outs, nones>>

lifeVars == <<board_size, xcells, ycells, lifepc>>
vars == <<root, count, abs, last, pc, x, kind, source, output_size, iter, outs, nones,
          board_size, xcells, ycells, lifepc>>

\* no iterator has been made
IterIdle ==
    /\ kind = "none"
    /\ source = <<>>
    /\ output_size = 0
    /\ iter = [ok |-> FALSE, err |-> "none"]
    /\ outs = <<>>
    /\ nones = 0

\* no board has been made
LifeIdle ==
    /\ board_size = 0
    /\ xcells = <<>>
    /\ ycells = <<>>
    /\ lifepc = "none"

\* the abstract finite map: a set of <<key, value>> pairs, at most one per key
absHas(m, k) == \E p \in m : p[1] = k
absGet(m, k) == IF absHas(m, k) THEN Some((CHOOSE p \in m : p[1] = k)[2]) ELSE Nil
absInsert(m, k, v) == IF absHas(m, k) THEN m ELSE m \cup {<<k, v>>}
absDelete(m, k) == {p \in m : p[1] # k}

Call(op, ok) == [op |-> op, ok |-> ok]

\* KeyValueMap::new
Init ==
    /\ root = Nil
    /\ count = 0
    /\ abs = {}
    /\ last = Call("new", FALSE)
    /\ pc = "api"
    /\ x = 0
    /\ IterIdle
    /\ LifeIdle

\* mutant of Insert: count is left as it was
Insert_count_forgotten(k, v) ==
    LET rs == insert(root, TreeNode(KeyValuePair(k, Some(v)), Nil, Nil, 1))
        res == rs[1]
    IN /\ root' = rs[2]
       /\ count' = count
       /\ abs' = absInsert(abs, k, v)
       /\ last' = Call("insert", res)

\* variant: the pair is built without its value, as the search pair of delete is
Insert_without_value(k, v) ==
    LET rs == insert(root, TreeNode(KeyValuePair(k, Nil), Nil, Nil, 1))
        res == rs[1]
    IN /\ root' = rs[2]
       /\ count' = count + (IF res THEN 1 ELSE 0)
       /\ abs' = absInsert(abs, k, v)
       /\ last' = Call("insert", res)

\* KeyValueMap::insert
Insert(k, v) ==
    LET rs == insert(root, TreeNode(KeyValuePair(k, Some(v)), Nil, Nil, 1))
        res == rs[1]
    IN /\ root' = rs[2]
       /\ count' = count + (IF res THEN 1 ELSE 0)
       /\ abs' = absInsert(abs, k, v)
       /\ last' = Call("insert", res)

\* mutant of Delete: count goes down whether or not a pair was found
Delete_count_always(k) ==
    LET ds == delete(root, KeyValuePair(k, Nil))
        deleted == ds[2]
    IN /\ root' = ds[1]
       /\ count' = count - 1
       /\ abs' = absDelete(abs, k)
       /\ last' = Call("delete", deleted # Nil)

\* KeyValueMap::delete
Delete(k) ==
    LET ds == delete(root, KeyValuePair(k, Nil))
        deleted == ds[2]
    IN /\ root' = ds[1]
       /\ count' = IF deleted # Nil THEN count - 1 ELSE count
       /\ abs' = absDelete(abs, k)
       /\ last' = Call("delete", deleted # Nil)

\* KeyValueMap::find
Find(k) ==
    LET res == find(root, k)
    IN /\ last' = Call("find", res # Nil)
       /\ UNCHANGED <<root, count, abs>>

Next ==
    \/ \E k \in Keys, v \in Values : Insert(k, v) /\ UNCHANGED <<pc, x, iterVars, lifeVars>>
    \/ \E k \in Keys : Delete(k) /\ UNCHANGED <<pc, x, iterVars, lifeVars>>
    \/ \E k \in Keys : Find(k) /\ UNCHANGED <<pc, x, iterVars, lifeVars>>

Spec == Init /\ [][Next]_vars

\* ------------------------------------------------------------------------
\* main: a new map, then insert(x, "catscatscats") for x in 0..20, then the
\* map is printed.  After the loop the map is open to one delete and to
\* lookups, with the key of the call kept in x.
\* ------------------------------------------------------------------------
N == 20
Cat == "catscatscats"

MainInit ==
    /\ root = Nil
    /\ count = 0
    /\ abs = {}
    /\ last = Call("new", FALSE)
    /\ pc = "loop"
    /\ x = 0
    /\ IterIdle
    /\ LifeIdle

MainLoop ==
    /\ pc = "loop"
    /\ x < N
    /\ Insert(x, Cat)
    /\ x' = x + 1
    /\ pc' = pc
    /\ UNCHANGED <<iterVars, lifeVars>>

MainLoopEnd ==
    /\ pc = "loop"
    /\ x >= N
    /\ pc' = "print"
    /\ UNCHANGED <<root, count, abs, last, x, iterVars, lifeVars>>

MainFind(k) ==
    /\ pc \in {"print", "deleted"}
    /\ Find(k)
    /\ x' = k
    /\ pc' = pc
    /\ UNCHANGED <<iterVars, lifeVars>>

MainDelete(k) ==
    /\ pc = "print"
    /\ Delete(k)
    /\ x' = k
    /\ pc' = "deleted"
    /\ UNCHANGED <<iterVars, lifeVars>>

MainNext ==
    \/ MainLoop
    \/ MainLoopEnd
    \/ \E k \in 0 .. (N - 1) : MainFind(k)
    \/ \E k \in 0 .. (N - 1) : MainDelete(k)

SpecMain == MainInit /\ [][MainNext]_vars

\* ------------------------------------------------------------------------
\* combinatorial: iterators over a slice (src/combinatorial/src/lib.rs).
\* A Vec or slice is a sequence; at(v, i) is the Rust v[i], counted from 0.
\* A Result is [ok |-> TRUE, it |-> the iterator] or [ok |-> FALSE, err].
\* next returns <<the iterator after the call, the Option it returns>>.
\* ------------------------------------------------------------------------
MaxLen == 4
MaxNones == 2

\* the slices handed to new: &[1, 2, ..., n], as main's nums
Slice(n) == [i \in 1 .. n |-> i]

at(v, i) == v[i + 1]

Ok(it) == [ok |-> TRUE, it |-> it]
Err(e) == [ok |-> FALSE, err |-> e]

swizzle(src, indexes) == [j \in 1 .. Len(indexes) |-> at(src, indexes[j])]

\* --- SimpleCombinationsIterator ---
SimpleCombinationsIterator_new(src, out_size) ==
    IF out_size > Len(src)
    THEN Err("OutputSizeTooLarge")
    ELSE LET delta == Len(src) - out_size
         IN Ok([source |-> src,
                skip |-> [j \in 1 .. delta |-> delta - (j - 1) - 1],
                consumed |-> FALSE])

\* returns <<self, Option<(i, skip[i])>>>
increment_skip_hole(self) ==
    LET open == {i \in 0 .. (Len(self.skip) - 1) :
                    at(self.skip, i) # Len(self.source) - 1 - i}
    IN IF open = {}
       THEN <<self, Nil>>
       ELSE LET i == CHOOSE m \in open : \A o \in open : m <= o
            IN <<[self EXCEPT !.skip[i + 1] = @ + 1], Some(<<i, at(self.skip, i) + 1>>)>>

\* the filter over source.iter().enumerate(): i is the position looked at, p
\* the number of entries of skip.iter().rev() consumed so far
RECURSIVE generate_result_from(_, _, _)
generate_result_from(self, i, p) ==
    IF i >= Len(self.source) THEN <<>>
    ELSE IF p < Len(self.skip) /\ at(self.skip, Len(self.skip) - 1 - p) = i
         THEN generate_result_from(self, i + 1, p + 1)
         ELSE <<at(self.source, i)>> \o generate_result_from(self, i + 1, p)

generate_result(self) == generate_result_from(self, 0, 0)

\* the Some((i, skip)) arm of next: skip[j] = skip + (i - j) for j < i
\* variant: the holes below the moved one are left where they are
reset_lower_holes_skipped(self, i, skip) == self

reset_lower_holes(self, i, skip) ==
    [self EXCEPT !.skip = [j \in 1 .. Len(self.skip) |->
                              IF j - 1 < i THEN skip + (i - (j - 1)) ELSE self.skip[j]]]

SimpleCombinationsIterator_advance(inc) ==
    IF inc[2] # Nil
    THEN reset_lower_holes(inc[1], unwrap(inc[2])[1], unwrap(inc[2])[2])
    ELSE [inc[1] EXCEPT !.consumed = TRUE]

SimpleCombinationsIterator_next(self) ==
    IF self.consumed
    THEN <<self, Nil>>
    ELSE <<SimpleCombinationsIterator_advance(increment_skip_hole(self)),
           Some(generate_result(self))>>

\* --- SimplePermutationsIterator ---
\* Result::unwrap on a Result that is an Err has no `it`: the panic
unwrap_ok(r) == r.it

SimplePermutationsIterator_new(src, out_size) ==
    IF out_size > Len(src)
    THEN Err("OutputSizeTooLarge")
    ELSE LET seed == [j \in 1 .. Len(src) |-> j - 1]
         IN Ok([source |-> src,
                seed_iter |-> unwrap_ok(SimpleCombinationsIterator_new(seed, out_size)),
                seed |-> seed,
                indexes |-> [j \in 1 .. out_size |-> 0],
                counters |-> [j \in 1 .. out_size |-> 0],
                current_output |-> out_size])

\* Vec::swap(a, b)
swap(v, a, b) == [v EXCEPT ![a + 1] = at(v, b), ![b + 1] = at(v, a)]

\* variant: the swap partner ignores the parity of the position
gen_permutation_no_parity(self, c) ==
    [self EXCEPT !.indexes = swap(@, at(self.counters, c), c),
                 !.counters[c + 1] = @ + 1,
                 !.current_output = 1]

\* the then-branch of try_gen_permutation, c = current_output
gen_permutation(self, c) ==
    [self EXCEPT !.indexes = swap(@, (c % 2) * at(self.counters, c), c),
                 !.counters[c + 1] = @ + 1,
                 !.current_output = 1]

with_swizzle(self) == <<self, Some(swizzle(self.source, self.indexes))>>

try_gen_permutation(self) ==
    IF at(self.counters, self.current_output) < self.current_output
    THEN \* Swizzle indexes to transition permutation, consume permutation
         with_swizzle(gen_permutation(self, self.current_output))
    ELSE \* Reset counter for swizzle position and consider next entry
         <<[self EXCEPT !.counters[self.current_output + 1] = 0,
                        !.current_output = @ + 1],
           Nil>>

\* the Some(seed_indexes) arm of try_next_seed, r the seed iterator's answer
reseed(self, r) ==
    [self EXCEPT !.seed_iter = r[1],
                 !.indexes = unwrap(r[2]),
                 !.counters = [j \in 1 .. Len(self.counters) |-> 0],
                 !.current_output = 1]

try_next_seed_with(self, r) ==
    IF r[2] # Nil
    THEN with_swizzle(reseed(self, r))
    ELSE <<[self EXCEPT !.seed_iter = r[1]], Nil>>

try_next_seed(self) ==
    try_next_seed_with(self, SimpleCombinationsIterator_next(self.seed_iter))

RECURSIVE SimplePermutationsIterator_next(_)
permutation_or_loop(r) ==
    IF r[2] # Nil THEN r ELSE SimplePermutationsIterator_next(r[1])

SimplePermutationsIterator_next(self) ==
    IF self.current_output < Len(self.counters)
    THEN permutation_or_loop(try_gen_permutation(self))
    ELSE try_next_seed(self)

\* --- GeneralCombinationsIterator ---
\* returns <<indexes, (i, indexes[i])>>, or <<indexes, (0, 0)>> when every
\* index has wrapped to 0
add_with_carry(indexes, base) ==
    LET stay == {i \in 0 .. (Len(indexes) - 1) : (at(indexes, i) + 1) % base # 0}
    IN IF stay = {}
       THEN <<[j \in 1 .. Len(indexes) |-> 0], <<0, 0>>>>
       ELSE LET i == CHOOSE m \in stay : \A o \in stay : m <= o
            IN <<[j \in 1 .. Len(indexes) |->
                     IF j - 1 < i THEN 0
                     ELSE IF j - 1 = i THEN (indexes[j] + 1) % base
                     ELSE indexes[j]],
                 <<i, (at(indexes, i) + 1) % base>>>>

GeneralCombinationsIterator_new(src, out_size) ==
    IF Len(src) = 0 /\ out_size > 0
    THEN Err("OutputSizeTooLarge")
    ELSE Ok([source |-> src,
             indexes |-> [j \in 1 .. out_size |-> 0],
             modified |-> FALSE])

\* variant: the indexes below the modified one stay at zero
fill_lower_skipped(ac) == ac[1]

\* for index in indexes.iter_mut().take(modified_index) { *index = new_index_value }
fill_lower(ac) ==
    [j \in 1 .. Len(ac[1]) |-> IF j - 1 < ac[2][1] THEN ac[2][2] ELSE ac[1][j]]

GeneralCombinationsIterator_next(self) ==
    IF (\A j \in 1 .. Len(self.indexes) : self.indexes[j] = 0) /\ self.modified
    THEN <<self, Nil>>
    ELSE <<[self EXCEPT !.indexes = fill_lower(add_with_carry(@, Len(self.source))),
                        !.modified = TRUE],
           Some(swizzle(self.source, self.indexes))>>

\* --- SubsetIterator ---
\* RangeInclusive<usize>::next, returns <<range, Option<usize>>>
range_next(r) ==
    IF r.exhausted \/ r.start > r.end
    THEN <<r, Nil>>
    ELSE IF r.start < r.end
    THEN <<[r EXCEPT !.start = @ + 1], Some(r.start)>>
    ELSE <<[r EXCEPT !.exhausted = TRUE], Some(r.start)>>

\* variant: the sizes start at 0, the size the first combinations iterator has
SubsetIterator_new_from_zero(src) ==
    [source |-> src,
     combinations_iter |-> unwrap_ok(SimpleCombinationsIterator_new(src, 0)),
     sizes |-> [start |-> 0, end |-> Len(src), exhausted |-> FALSE]]

SubsetIterator_new(src) ==
    [source |-> src,
     combinations_iter |-> unwrap_ok(SimpleCombinationsIterator_new(src, 0)),
     sizes |-> [start |-> 1, end |-> Len(src), exhausted |-> FALSE]]

\* the None arm of next: sz is the answer of sizes.next()
next_size(self, sz) ==
    IF sz[2] # Nil
    THEN LET r == SimpleCombinationsIterator_next(
                      unwrap_ok(SimpleCombinationsIterator_new(self.source, unwrap(sz[2]))))
         IN <<[self EXCEPT !.combinations_iter = r[1], !.sizes = sz[1]], r[2]>>
    ELSE <<[self EXCEPT !.sizes = sz[1]], Nil>>

subset_next_with(self, r) ==
    IF r[2] # Nil
    THEN <<[self EXCEPT !.combinations_iter = r[1]], r[2]>>
    ELSE next_size([self EXCEPT !.combinations_iter = r[1]], range_next(self.sizes))

SubsetIterator_next(self) ==
    subset_next_with(self, SimpleCombinationsIterator_next(self.combinations_iter))

\* --- driving an iterator: new, then next again and again ---
IterKinds == {"SimpleCombinations", "SimplePermutations", "GeneralCombinations", "Subset"}

NewOf(k, src, out_size) ==
    CASE k = "SimpleCombinations" -> SimpleCombinationsIterator_new(src, out_size)
      [] k = "SimplePermutations" -> SimplePermutationsIterator_new(src, out_size)
      [] k = "GeneralCombinations" -> GeneralCombinationsIterator_new(src, out_size)
      [] k = "Subset" -> Ok(SubsetIterator_new(src))

IterInit ==
    /\ root = Nil
    /\ count = 0
    /\ abs = {}
    /\ last = Call("new", FALSE)
    /\ pc = "api"
    /\ x = 0
    /\ kind \in IterKinds
    /\ \E n \in 0 .. MaxLen : source = Slice(n)
    /\ output_size \in 0 .. (MaxLen + 1)
    /\ kind = "Subset" => output_size = 0
    /\ iter = NewOf(kind, source, output_size)
    /\ LifeIdle
    /\ outs = <<>>
    /\ nones = 0

\* one call of next, r its answer
Drive(r) ==
    /\ iter' = Ok(r[1])
    /\ outs' = IF r[2] # Nil THEN Append(outs, unwrap(r[2])) ELSE outs
    /\ nones' = IF r[2] # Nil THEN nones ELSE nones + 1
    /\ UNCHANGED <<kind, source, output_size, mapVars, lifeVars>>

SimpleCombinationsNext ==
    /\ kind = "SimpleCombinations" /\ iter.ok /\ nones < MaxNones
    /\ Drive(SimpleCombinationsIterator_next(iter.it))

SimplePermutationsNext ==
    /\ kind = "SimplePermutations" /\ iter.ok /\ nones < MaxNones
    /\ Drive(SimplePermutationsIterator_next(iter.it))

GeneralCombinationsNext ==
    /\ kind = "GeneralCombinations" /\ iter.ok /\ nones < MaxNones
    /\ Drive(GeneralCombinationsIterator_next(iter.it))

SubsetNext ==
    /\ kind = "Subset" /\ iter.ok /\ nones < MaxNones
    /\ Drive(SubsetIterator_next(iter.it))

IterNext ==
    \/ SimpleCombinationsNext
    \/ SimplePermutationsNext
    \/ GeneralCombinationsNext
    \/ SubsetNext

SpecIter == IterInit /\ [][IterNext]_vars

\* ------------------------------------------------------------------------
\* Game of life (src/gameoflife): LifeBoard {board_size, cells}, cells kept
\* row by row in one Vec<bool>.  A board is modelled by its cells, a
\* sequence of board_size * board_size booleans read with 0-based indexes.
\* ------------------------------------------------------------------------
MaxBoard == 3

\* the width of usize in bits on the 64-bit targets; `delta as usize` turns
\* -1 into 2^usize_bits - 1
usize_bits == 64

\* 2^e mod n, without ever holding 2^e
RECURSIVE pow2_mod(_, _)
pow2_mod(e, n) == IF e = 0 THEN 1 % n ELSE (2 * pow2_mod(e - 1, n)) % n

\* (a.wrapping_add(delta as usize)) % n for a small a and delta in {-1, 0, 1}:
\* the sum is a + delta when that is not negative, and 2^usize_bits + a + delta
\* when it is (the addition wraps around the word)
wrapping_add_mod(a, delta, n) ==
    IF a + delta >= 0
    THEN (a + delta) % n
    ELSE (pow2_mod(usize_bits, n) + n + (a + delta)) % n

\* LifeBoard::new
LifeBoard_new(n) == [i \in 1 .. (n * n) |-> FALSE]

\* Index<usize>: self[row], the slice cells[row * n .. row * n + n]
index(cells, n, row) == SubSeq(cells, row * n + 1, row * n + n)

\* `b as u8`
as_u8(b) == IF b THEN 1 ELSE 0

is_neighbour_alive(cells, n, row, col, delta_row, delta_col) ==
    as_u8(at(index(cells, n, wrapping_add_mod(row, delta_row, n)),
             wrapping_add_mod(col, delta_col, n)))

\* the array `neighours` of step
neighours ==
    <<<<-1, -1>>, <<-1, 0>>, <<-1, 1>>, <<0, -1>>, <<0, 1>>, <<1, -1>>, <<1, 0>>, <<1, 1>>>>

\* `for cood in neighours { count += self.is_neighbour_alive(..) }`, from the
\* j-th entry on
RECURSIVE count_from(_, _, _, _, _)
count_from(cells, n, row, col, j) ==
    IF j > Len(neighours) THEN 0
    ELSE is_neighbour_alive(cells, n, row, col, neighours[j][1], neighours[j][2])
         + count_from(cells, n, row, col, j + 1)

\* `count |= *source.state as u8` on a count of at most 8
or_state(cnt, state) == IF state /\ cnt % 2 = 0 THEN cnt + 1 ELSE cnt

\* LifeBoard::step: the cells written into `next`, cell `i` of the iterators
\* being (i / board_size, i % board_size)
step(cells, n) ==
    [i \in 1 .. Len(cells) |->
        or_state(count_from(cells, n, (i - 1) \div n, (i - 1) % n, 1), cells[i]) = 3]

\* main: x and y are new boards, x is filled at random, then x.step(&mut y)
\* and y.step(&mut x) take turns.  main's boards have size 32; here the size
\* is any from 1 to MaxBoard.  The loop count of main is left out: the boards
\* it reaches are those reached here.
LifeInit ==
    /\ root = Nil
    /\ count = 0
    /\ abs = {}
    /\ last = Call("new", FALSE)
    /\ pc = "api"
    /\ x = 0
    /\ IterIdle
    /\ board_size \in 1 .. MaxBoard
    /\ xcells \in [1 .. (board_size * board_size) -> BOOLEAN]
    /\ ycells = LifeBoard_new(board_size)
    /\ lifepc = "filled"

\* x.step(&mut y)
StepXY ==
    /\ lifepc \in {"filled", "x"}
    /\ ycells' = step(xcells, board_size)
    /\ lifepc' = "y"
    /\ UNCHANGED <<board_size, xcells, mapVars, iterVars>>

\* y.step(&mut x)
StepYX ==
    /\ lifepc = "y"
    /\ xcells' = step(ycells, board_size)
    /\ lifepc' = "x"
    /\ UNCHANGED <<board_size, ycells, mapVars, iterVars>>

LifeNext == StepXY \/ StepYX

SpecLife == LifeInit /\ [][LifeNext]_vars

\* ------------------------------------------------------------------------
\* Properties of the map
\* ------------------------------------------------------------------------

\* The step is the call insert(k, v), delete(k) or find(k).  The conjuncts in
\* front of the action are implied by it; they only spare its evaluation on
\* the steps of other calls.
InsertCall(k, v) == last'.op = "insert" /\ abs' = absInsert(abs, k, v) /\ Insert(k, v)
DeleteCall(k) == last'.op = "delete" /\ abs' = absDelete(abs, k) /\ Delete(k)
FindCall(k) == last'.op = "find" /\ root' = root /\ Find(k)

\* C1: after any sequence of insert and delete calls every node satisfies the
\* AA link rules: a left child's level is strictly less than its parent's, a
\* right child's level is at most its parent's, and a right child's right
\* child has a level strictly less than the grandparent's.
C1_AALinkRules ==
    \A n \in Nodes(root) :
        /\ left(n) # Nil => level(left(n)) < level(n)
        /\ right(n) # Nil => level(right(n)) <= level(n)
        /\ (right(n) # Nil /\ right(right(n)) # Nil)
              => level(right(right(n))) < level(n)

\* a delete has just removed a key and left a tree of two levels whose root
\* keeps a horizontal right link with a right grandchild below it
C1_Witness ==
    /\ last.op = "delete" /\ last.ok
    /\ level(root) >= 2
    /\ right(root) # Nil /\ level(right(root)) = level(root)
    /\ right(right(root)) # Nil

\* C2: after every insert and every delete the in-order traversal of the
\* stored keys is strictly increasing.
C2_OrderPreserved == StrictlyIncreasing(inorder(root))

C2_Witness ==
    /\ last.op = "delete" /\ last.ok
    /\ Len(inorder(root)) >= 4
    /\ left(root) # Nil /\ right(root) # Nil

\* C3: count equals the number of nodes reachable from root; it goes up by
\* one exactly when insert returns true, down by one exactly when delete
\* returns a pair, and is otherwise unchanged, so it never goes below 0.
C3_CountStep ==
    /\ count' = size(root')
    /\ count' >= 0
    /\ (count' = count + 1) <=> (last'.op = "insert" /\ last'.ok)
    /\ (count' = count - 1) <=> (last'.op = "delete" /\ last'.ok)
    /\ count' \in {count - 1, count, count + 1}

C3_CountCorrect == (count = size(root)) /\ [][C3_CountStep]_vars

C3_Witness == last.op = "delete" /\ last.ok /\ count = 0

\* C4: side by side with the abstract finite map, insert(k, v) returns true
\* iff k was absent, delete(k) returns a pair iff k was present, and after
\* every operation find(j) returns the abstract map's value for j, or absence
\* when j is not in it, for every key j.
C4_FindAgrees(r, m) ==
    \A j \in Keys :
        find(r, j) = (IF absHas(m, j)
                      THEN Some(KeyValuePair(j, Some(unwrap(absGet(m, j)))))
                      ELSE Nil)

C4_Step ==
    /\ \A k \in Keys, v \in Values :
          InsertCall(k, v) => (last'.ok <=> ~absHas(abs, k))
    /\ \A k \in Keys :
          DeleteCall(k) => (last'.ok <=> absHas(abs, k))
    /\ \A k \in Keys :
          FindCall(k) => (last'.ok <=> absHas(abs, k))
    /\ C4_FindAgrees(root', abs')

C4_RefinesAbstractMap == C4_FindAgrees(root, abs) /\ [][C4_Step]_vars

\* a delete has just returned a pair while keys with both values remain
C4_Witness ==
    /\ last.op = "delete" /\ last.ok
    /\ \E p, q \in abs : p[2] # q[2]

\* C5: for a key k not present, insert(k, v) followed by find(k) yields v, a
\* following delete(k) yields v paired with k, and a following find(k)
\* yields absence.
C5_Step ==
    \A k \in Keys, v \in Values :
        (InsertCall(k, v) /\ find(root, k) = Nil) =>
            LET ds == delete(root', KeyValuePair(k, Nil))
            IN /\ find(root', k) = Some(KeyValuePair(k, Some(v)))
               /\ ds[2] # Nil
               /\ value(unwrap(ds[2])) = KeyValuePair(k, Some(v))
               /\ find(ds[1], k) = Nil

C5_RoundTrip == [][C5_Step]_vars

\* a new key has just gone into a map that already held four or more keys
\* of both values, so that deleting it again can need a replacement node
C5_Witness ==
    /\ last.op = "insert" /\ last.ok
    /\ count >= 5
    /\ \E p, q \in abs : p[2] # q[2]

\* C6: insert(k, v2) for a key k that is already present returns false and is
\* a no-op: count is unchanged, find(k) still yields the stored value, and the
\* tree is the same in shape, levels and key-value pairs.
C6_Step ==
    \A k \in Keys, v2 \in Values :
        (InsertCall(k, v2) /\ find(root, k) # Nil) =>
            /\ ~last'.ok
            /\ count' = count
            /\ find(root', k) = find(root, k)
            /\ root' = root

C6_DuplicateInsertNoOp == [][C6_Step]_vars

C6_Witness == last.op = "insert" /\ ~last.ok /\ level(root) >= 2

\* C7: delete(k) for a key k that is not present returns absence and leaves
\* the map unchanged: same count, same shape, same levels, same in-order
\* sequence of key-value pairs.
C7_Step ==
    \A k \in Keys :
        (DeleteCall(k) /\ find(root, k) = Nil) =>
            /\ ~last'.ok
            /\ count' = count
            /\ inorder(root') = inorder(root)
            /\ root' = root

C7_MissingDeleteNoOp == [][C7_Step]_vars

C7_Witness == last.op = "delete" /\ ~last.ok /\ level(root) >= 2

\* C8: every node whose level is greater than 1 has both a left and a right
\* child, and every node with no children has level exactly 1.
C8_InnerNodesFull ==
    \A n \in Nodes(root) :
        /\ level(n) > 1 => (left(n) # Nil /\ right(n) # Nil)
        /\ (left(n) = Nil /\ right(n) = Nil) => level(n) = 1

C8_Witness ==
    /\ last.op = "delete" /\ last.ok
    /\ level(root) >= 2
    /\ \E n \in Nodes(root) : level(n) = 1 /\ right(n) # Nil

\* C9 as stated: every node whose level is 1 is a leaf, with neither a left
\* nor a right child.
C9_Level1IsLeaf ==
    \A n \in Nodes(root) :
        level(n) = 1 => (left(n) = Nil /\ right(n) = Nil)

\* C9 amended: every node whose level is 1 has no left child; its right
\* child, when present, is a level-1 node without children.
C9_Level1NoLeftChild ==
    \A n \in Nodes(root) :
        level(n) = 1 =>
            /\ left(n) = Nil
            /\ right(n) # Nil =>
                  /\ level(right(n)) = 1
                  /\ left(right(n)) = Nil
                  /\ right(right(n)) = Nil

C9_Witness ==
    /\ last.op = "insert" /\ last.ok
    /\ level(root) >= 2
    /\ \E n \in Nodes(root) : level(n) = 1 /\ right(n) # Nil

\* C10: inserting the keys 0..19 in increasing order with one constant value
\* gives count = 20, find(5) returning that value and a root level of at most
\* 5; then delete(10) returns the pair of key 10, find(10) returns absence,
\* count = 19 and the remaining 19 keys traverse in strictly increasing order.
C10_Step ==
    /\ (pc = "loop" /\ pc' = "print") =>
          /\ count' = 20
          /\ find(root', 5) = Some(KeyValuePair(5, Some(Cat)))
          /\ level(root') <= 5
    /\ (pc = "print" /\ MainDelete(10)) =>
          LET ds == delete(root, KeyValuePair(10, Nil))
              keys == [j \in 1 .. Len(inorder(root')) |-> key(inorder(root')[j])]
          IN /\ last'.ok
             /\ ds[2] # Nil
             /\ value(unwrap(ds[2])) = KeyValuePair(10, Some(Cat))
             /\ find(root', 10) = Nil
             /\ count' = 19
             /\ Len(keys) = 19
             /\ StrictlyIncreasing(inorder(root'))
             /\ {keys[j] : j \in 1 .. 19} = (0 .. 19) \ {10}

C10_MainScenario == [][C10_Step]_vars

C10_Witness ==
    /\ pc = "deleted" /\ x = 10
    /\ last.op = "delete" /\ last.ok
    /\ count = 19

\* ------------------------------------------------------------------------
\* Properties of the iterators (under SpecIter)
\* ------------------------------------------------------------------------
\* The source slices are Slice(n), so the element at position p is p + 1 and
\* an output names the positions it was built from.
PositionsOf(o) == [j \in 1 .. Len(o) |-> o[j] - 1]
Range(s) == {s[j] : j \in 1 .. Len(s)}
NoDup(s) == \A a, b \in 1 .. Len(s) : a < b => s[a] # s[b]
Ascending(s) == \A a, b \in 1 .. Len(s) : a < b => s[a] < s[b]
NonIncreasing(s) == \A a, b \in 1 .. Len(s) : a < b => s[a] >= s[b]
AllZero(s) == \A j \in 1 .. Len(s) : s[j] = 0
InSource(p) == \A j \in 1 .. Len(p) : p[j] \in 0 .. (Len(source) - 1)
Outputs == {PositionsOf(outs[j]) : j \in 1 .. Len(outs)}

RECURSIVE Binomial(_, _)
Binomial(n, k) ==
    IF k = 0 THEN 1
    ELSE IF n = 0 THEN 0
    ELSE Binomial(n - 1, k - 1) + Binomial(n - 1, k)

RECURSIVE Factorial(_)
Factorial(n) == IF n = 0 THEN 1 ELSE n * Factorial(n - 1)

RECURSIVE Pow2(_)
Pow2(n) == IF n = 0 THEN 1 ELSE 2 * Pow2(n - 1)

\* every sequence of k positions of a source of length n
PositionVectors(n, k) == [1 .. k -> 0 .. (n - 1)]

\* C11: SimpleCombinationsIterator::new fails with OutputSizeTooLarge exactly
\* when output_size > n; otherwise every output lists output_size positions
\* in source order without repeating one, no output comes twice, and once
\* next has answered None the outputs are exactly the C(n, k) k-element
\* subsets of the positions and every later call answers None again.
C11_SimpleCombinations ==
    kind = "SimpleCombinations" =>
        /\ iter.ok <=> output_size <= Len(source)
        /\ ~iter.ok => iter.err = "OutputSizeTooLarge" /\ outs = <<>> /\ nones = 0
        /\ \A p \in Outputs : Len(p) = output_size /\ InSource(p) /\ Ascending(p)
        /\ NoDup(outs)
        /\ nones >= 1 =>
              /\ Len(outs) = Binomial(Len(source), output_size)
              /\ {Range(p) : p \in Outputs} =
                     {S \in SUBSET (0 .. (Len(source) - 1)) : Cardinality(S) = output_size}

C11_Witness ==
    /\ kind = "SimpleCombinations"
    /\ Len(source) = 4 /\ output_size = 2
    /\ nones = 2
    /\ Len(outs) = 6

\* C12: with output_size <= n, every output of SimplePermutationsIterator
\* lists output_size distinct positions, no output comes twice, the outputs
\* come in runs of k! arrangements of one seed combination (the first of a
\* run being the seed in source order), and once next has answered None the
\* outputs are exactly the n!/(n-k)! arrangements and every later call
\* answers None again.
C12_SimplePermutations ==
    (kind = "SimplePermutations" /\ output_size <= Len(source)) =>
        /\ iter.ok
        /\ \A p \in Outputs : Len(p) = output_size /\ InSource(p) /\ NoDup(p)
        /\ NoDup(outs)
        /\ \A j \in 1 .. Len(outs) :
              LET first == ((j - 1) \div Factorial(output_size)) * Factorial(output_size) + 1
              IN /\ Range(outs[j]) = Range(outs[first])
                 /\ Ascending(outs[first])
        /\ nones >= 1 =>
              /\ Len(outs) * Factorial(Len(source) - output_size) = Factorial(Len(source))
              /\ Outputs = {p \in PositionVectors(Len(source), output_size) : NoDup(p)}

C12_Witness ==
    /\ kind = "SimplePermutations"
    /\ Len(source) = 4 /\ output_size = 3
    /\ nones = 2
    /\ Len(outs) = 24

\* C13: with n >= 1, every output of GeneralCombinationsIterator is a vector
\* of output_size positions that never increases from position 0 upward, the
\* first one is all zeros, no output comes twice, the index vector is back
\* at all zeros exactly after the last of the C(n+k-1, k) outputs, and from
\* then on next answers None, after which the outputs are exactly the
\* multisets of output_size positions.
C13_GeneralCombinations ==
    (kind = "GeneralCombinations" /\ Len(source) >= 1) =>
        /\ iter.ok
        /\ \A p \in Outputs : Len(p) = output_size /\ InSource(p) /\ NonIncreasing(p)
        /\ NoDup(outs)
        /\ outs # <<>> =>
              /\ AllZero(PositionsOf(outs[1]))
              /\ AllZero(iter.it.indexes) <=>
                     Len(outs) = Binomial(Len(source) + output_size - 1, output_size)
        /\ nones >= 1 =>
              /\ Len(outs) = Binomial(Len(source) + output_size - 1, output_size)
              /\ Outputs = {p \in PositionVectors(Len(source), output_size) : NonIncreasing(p)}

C13_Witness ==
    /\ kind = "GeneralCombinations"
    /\ Len(source) = 3 /\ output_size = 3
    /\ nones = 2
    /\ Len(outs) = 10

\* C14: every output of SubsetIterator is a subset of the positions in
\* source order, the first is the empty one, the sizes never decrease, no
\* output comes twice, and once next has answered None the outputs are
\* exactly the 2^n subsets and every later call answers None again.
C14_Subsets ==
    kind = "Subset" =>
        /\ iter.ok
        /\ \A p \in Outputs : InSource(p) /\ Ascending(p)
        /\ NoDup(outs)
        /\ outs # <<>> => outs[1] = <<>>
        /\ \A a, b \in 1 .. Len(outs) : a < b => Len(outs[a]) <= Len(outs[b])
        /\ nones >= 1 =>
              /\ Len(outs) = Pow2(Len(source))
              /\ {Range(p) : p \in Outputs} = SUBSET (0 .. (Len(source) - 1))

C14_Witness ==
    /\ kind = "Subset"
    /\ Len(source) = 3
    /\ nones = 2
    /\ Len(outs) = 8

\* ------------------------------------------------------------------------
\* Properties of delete and of the rebalancing steps (under Spec)
\* ------------------------------------------------------------------------
\* the node a descent by key stops at, or Nil
RECURSIVE locate(_, _)
locate(t, k) ==
    IF t = Nil THEN Nil
    ELSE IF k < key(value(t)) THEN locate(left(t), k)
    ELSE IF k > key(value(t)) THEN locate(right(t), k)
    ELSE t

IsLeaf(t) == left(t) = Nil /\ right(t) = Nil
Last(s) == s[Len(s)]
Front(s) == SubSeq(s, 1, Len(s) - 1)

\* the arm delete takes at a matched node m that has a child
replacement(m) ==
    IF left(m) # Nil THEN replace_with_predecessor(m) ELSE replace_with_successor(m)

\* C15: when delete(k) matches a node m with at least one child, m stays in
\* place (its level and its untouched child are as before) and holds the pair
\* of the largest key of its left subtree if it has one, else of the smallest
\* key of its right subtree; the pair handed back is k with the value stored
\* under k; and find answers for every other key as it did before.
C15_Step ==
    \A k \in Keys :
        (DeleteCall(k) /\ locate(root, k) # Nil /\ ~IsLeaf(locate(root, k))) =>
            LET m == locate(root, k)
            IN /\ level(replacement(m)[1]) = level(m)
               /\ left(m) # Nil =>
                     /\ value(replacement(m)[1]) = Last(inorder(left(m)))
                     /\ right(replacement(m)[1]) = right(m)
               /\ left(m) = Nil =>
                     /\ value(replacement(m)[1]) = Head(inorder(right(m)))
                     /\ left(replacement(m)[1]) = Nil
               /\ value(unwrap(replacement(m)[2])) = KeyValuePair(k, absGet(abs, k))
               /\ value(unwrap(delete(root, KeyValuePair(k, Nil))[2])) =
                      KeyValuePair(k, absGet(abs, k))
               /\ find(root', key(value(replacement(m)[1]))) = Some(value(replacement(m)[1]))
               /\ \A j \in Keys \ {k} : find(root', j) = find(root, j)

C15_DeleteKeepsMatchedNode == [][C15_Step]_vars

\* the middle key of three has just been deleted: it sat in a node with two
\* children, and the two outer keys, with different values, are what is left
C15_Witness ==
    /\ last.op = "delete" /\ last.ok
    /\ count = 2
    /\ {p[1] : p \in abs} = {0, MaxKey - 1}
    /\ \E p, q \in abs : p[2] # q[2]

\* the node at which predecessor stops (`t.right.is_none()`) and which it
\* detaches, as it is before its left child is taken out of it
RECURSIVE predecessor_detached(_)
predecessor_detached(t) ==
    IF right(t) = Nil THEN t ELSE predecessor_detached(right(t))

\* the node at which successor stops (`t.left.is_none()`) and which it detaches
RECURSIVE successor_detached(_)
successor_detached(t) ==
    IF left(t) = Nil THEN t ELSE successor_detached(left(t))

\* C16: whichever present key is deleted next, the node that is detached is
\* a leaf when it is detached: for a matched node with a left child it is the
\* node predecessor stops at in the left subtree, otherwise, with a right
\* child, the node successor stops at in the right subtree; it has neither
\* child, it is the node the extraction hands back, and what is put in its
\* place (its left child for predecessor, its right child for successor) is
\* absent.
C16_DetachedIsLeaf ==
    \A m \in Nodes(root) :
        /\ left(m) # Nil =>
              /\ IsLeaf(predecessor_detached(left(m)))
              /\ predecessor(left(m))[2] = predecessor_detached(left(m))
              /\ size(predecessor(left(m))[1]) = size(left(m)) - 1
        /\ (left(m) = Nil /\ right(m) # Nil) =>
              /\ IsLeaf(successor_detached(right(m)))
              /\ successor(right(m))[2] = successor_detached(right(m))
              /\ successor(right(m))[1] = Nil

\* after a delete, a node whose predecessor lies two links down its left
\* subtree, and a node that has only a right child
C16_Witness ==
    /\ last.op = "delete" /\ last.ok
    /\ \E m \in Nodes(root) : left(m) # Nil /\ right(left(m)) # Nil
    /\ \E m \in Nodes(root) : left(m) = Nil /\ right(m) # Nil

\* C17: for every non-empty subtree t of a reachable tree (all of them obey
\* the AA link rules and the key order), successor(t) hands back the node
\* with the smallest key and predecessor(t) the node with the largest key,
\* and the remainder holds the other pairs in the same in-order sequence.
C17_ExtractMinMax ==
    \A t \in Nodes(root) :
        /\ value(successor(t)[2]) = Head(inorder(t))
        /\ inorder(successor(t)[1]) = Tail(inorder(t))
        /\ value(predecessor(t)[2]) = Last(inorder(t))
        /\ inorder(predecessor(t)[1]) = Front(inorder(t))

\* a tree of level 2 whose root has a horizontal right link: successor goes
\* down a left link and predecessor down two right links, and both rebalance
\* on the way back
C17_Witness ==
    /\ level(root) = 2
    /\ level(right(root)) = 2
    /\ count >= 5
    /\ \E p, q \in abs : p[2] # q[2]

\* ------------------------------------------------------------------------
\* The trees the rebalancing steps are applied to.  Each frame of insert
\* hands its tree to skew and then split; each frame of delete, predecessor
\* and successor that does not return early hands its tree to the
\* rebalancing sequence.
\* ------------------------------------------------------------------------
\* the trees `tree` of the frames of insert(t, item), as they are before skew
RECURSIVE InsertFrames(_, _)
InsertFrames(t, item) ==
    IF t = Nil THEN {item}
    ELSE IF lt(value(item), value(t))
    THEN {set_left(t, insert(left(t), item)[2])} \cup InsertFrames(left(t), item)
    ELSE IF gt(value(item), value(t))
    THEN {set_right(t, insert(right(t), item)[2])} \cup InsertFrames(right(t), item)
    ELSE {t}

\* the trees `tree` of the frames of predecessor(t), before "// Rebalance subtree"
RECURSIVE PredecessorFrames(_)
PredecessorFrames(t) ==
    IF right(t) = Nil THEN {}
    ELSE {set_right(t, predecessor(right(t))[1])} \cup PredecessorFrames(right(t))

RECURSIVE SuccessorFrames(_)
SuccessorFrames(t) ==
    IF left(t) = Nil THEN {}
    ELSE {set_left(t, successor(left(t))[1])} \cup SuccessorFrames(left(t))

\* the trees `tree` of the frames of delete(t, item), before "// Rebalance subtree"
RECURSIVE DeleteFrames(_, _)
DeleteFrames(t, item) ==
    IF t = Nil THEN {}
    ELSE IF lt(item, value(t))
    THEN {set_left(t, delete(left(t), item)[1])} \cup DeleteFrames(left(t), item)
    ELSE IF gt(item, value(t))
    THEN {set_right(t, delete(right(t), item)[1])} \cup DeleteFrames(right(t), item)
    ELSE IF IsLeaf(t) THEN {}
    ELSE IF left(t) = Nil
    THEN {replace_with_successor(t)[1]} \cup SuccessorFrames(right(t))
    ELSE {replace_with_predecessor(t)[1]} \cup PredecessorFrames(left(t))

\* the frames of every insert and of every delete that can be called now
AllInsertFrames ==
    UNION {InsertFrames(root, TreeNode(KeyValuePair(k, Some(v)), Nil, Nil, 1)) :
               k \in Keys, v \in Values}
AllDeleteFrames ==
    UNION {DeleteFrames(root, KeyValuePair(k, Nil)) : k \in Keys}

\* the rebalancing sequence, statement by statement
after_skew(f) == skew(decrease_level(f))
after_skew_right(f) == skew_right(after_skew(f))
after_skews(f) == skew_right_right(after_skew_right(f))
after_split(f) == split(after_skews(f))

\* every tree handed to decrease_level, to skew and to split
DecreaseInputs == AllDeleteFrames
SkewInputs ==
    AllInsertFrames
    \cup {decrease_level(f) : f \in AllDeleteFrames}
    \cup {right(after_skew(f)) : f \in AllDeleteFrames}
    \cup {right(right(after_skew_right(f))) :
              f \in {g \in AllDeleteFrames : right(after_skew_right(g)) # Nil}}
SplitInputs ==
    {skew(f) : f \in AllInsertFrames}
    \cup {after_skews(f) : f \in AllDeleteFrames}
    \cup {right(after_split(f)) : f \in AllDeleteFrames}

\* the level of every node, the node named by its key
LevelMap(t) == {<<key(value(n)), level(n)>> : n \in Nodes(t)}

SplitRotates(t) ==
    /\ t # Nil
    /\ right(t) # Nil
    /\ right(right(t)) # Nil
    /\ level(right(right(t))) = level(t)

SkewRotates(t) ==
    /\ t # Nil
    /\ left(t) # Nil
    /\ level(left(t)) = level(t)

Min(a, b) == IF a < b THEN a ELSE b
Target(f) == Min(level(left(f)), level(right(f))) + 1

\* C18: in every insert and delete, split rotates exactly when the right
\* child of its input has a right child at the input's level, and then the
\* promoted right child goes up by exactly 1 and no other level changes;
\* otherwise split hands back its input.  skew changes no level,
\* decrease_level raises none, and the value swap of delete leaves the
\* matched node's level as it was.
C18_LevelsRiseOnlyInSplit ==
    /\ \A t \in SplitInputs :
          IF SplitRotates(t)
          THEN /\ value(split(t)) = value(right(t))
               /\ level(split(t)) = level(right(t)) + 1
               /\ LevelMap(split(t)) =
                      (LevelMap(t) \ {<<key(value(right(t))), level(right(t))>>})
                          \cup {<<key(value(right(t))), level(right(t)) + 1>>}
          ELSE split(t) = t
    /\ \A t \in SkewInputs : LevelMap(skew(t)) = LevelMap(t)
    /\ \A f \in DecreaseInputs :
          \A n \in LevelMap(decrease_level(f)) :
              \E o \in LevelMap(f) : o[1] = n[1] /\ n[2] <= o[2]
    /\ \A m \in Nodes(root) : ~IsLeaf(m) => level(replacement(m)[1]) = level(m)

\* an insert that can be called now makes split rotate, and a delete that
\* can be called now makes decrease_level lower a level and split rotate
C18_Witness ==
    /\ count >= 4
    /\ \E f \in AllInsertFrames : SplitRotates(skew(f))
    /\ \E f \in AllDeleteFrames : decrease_level(f) # f
    /\ \E f \in AllDeleteFrames : SplitRotates(after_skews(f))

\* C19: in every insert and delete, skew rotates right exactly when its
\* input has a left child at the input's level: the left child becomes the
\* local root, its former right child the old root's left child, the old
\* root its right child; otherwise skew hands back its input.  Either way
\* every node keeps its level and the in-order sequence of pairs is the same.
C19_SkewRotation ==
    \A t \in SkewInputs :
        /\ IF SkewRotates(t)
           THEN /\ value(skew(t)) = value(left(t))
                /\ level(skew(t)) = level(left(t))
                /\ left(skew(t)) = left(left(t))
                /\ right(skew(t)) = TreeNode(value(t), right(left(t)), right(t), level(t))
           ELSE skew(t) = t
        /\ Nodes(skew(t)) # Nodes(t) => SkewRotates(t)
        /\ {<<value(n), level(n)>> : n \in Nodes(skew(t))} =
               {<<value(n), level(n)>> : n \in Nodes(t)}
        /\ inorder(skew(t)) = inorder(t)

\* skew is about to rotate a left child that has a right subtree, in an
\* insert and in a delete, and to leave alone an input that has a left child
C19_Witness ==
    /\ \E f \in AllInsertFrames : SkewRotates(f) /\ right(left(f)) # Nil
    /\ \E f \in AllDeleteFrames : SkewRotates(decrease_level(f))
    /\ \E t \in SkewInputs : t # Nil /\ left(t) # Nil /\ ~SkewRotates(t)

\* C20: for every tree handed to decrease_level, and for every subtree of a
\* reachable tree, with target = min(level(left), level(right)) + 1 and an
\* absent child at level 0: if target is below the root's level the root
\* gets level target, and the right child, if present above target, gets
\* level target too; otherwise nothing changes.  Values, shape and the left
\* subtree stay as they are and no level goes up.
C20_DecreaseLevel ==
    \A f \in DecreaseInputs \cup Nodes(root) :
        /\ value(decrease_level(f)) = value(f)
        /\ left(decrease_level(f)) = left(f)
        /\ right(decrease_level(f)) = Nil <=> right(f) = Nil
        /\ right(f) # Nil =>
              /\ value(right(decrease_level(f))) = value(right(f))
              /\ left(right(decrease_level(f))) = left(right(f))
              /\ right(right(decrease_level(f))) = right(right(f))
              /\ level(right(decrease_level(f))) =
                     IF Target(f) < level(f) /\ level(right(f)) > Target(f)
                     THEN Target(f) ELSE level(right(f))
        /\ level(decrease_level(f)) = IF Target(f) < level(f) THEN Target(f) ELSE level(f)
        /\ Target(f) >= level(f) => decrease_level(f) = f
        /\ level(decrease_level(f)) <= level(f)

\* a delete that can be called now hands decrease_level a tree whose root
\* and whose right child are both above the target
C20_Witness ==
    \E f \in DecreaseInputs :
        /\ Target(f) < level(f)
        /\ right(f) # Nil
        /\ level(right(f)) > Target(f)

\* ------------------------------------------------------------------------
\* Height and levels of the reachable trees (under Spec)
\* ------------------------------------------------------------------------
\* the number of nodes on the longest path from t down to a leaf
RECURSIVE Height(_)
Height(t) ==
    IF t = Nil THEN 0
    ELSE 1 + (IF Height(left(t)) > Height(right(t))
              THEN Height(left(t)) ELSE Height(right(t)))

\* the number of nodes insert, delete and find visit on the way to key k
RECURSIVE DescentLength(_, _)
DescentLength(t, k) ==
    IF t = Nil THEN 0
    ELSE IF k < key(value(t)) THEN 1 + DescentLength(left(t), k)
    ELSE IF k > key(value(t)) THEN 1 + DescentLength(right(t), k)
    ELSE 1

\* C21: after any sequence of insert and delete calls on a map of n = count
\* entries, the level L of the root (0 for the empty map) satisfies
\* 2^L - 1 <= n, the longest path from the root to a leaf has at most 2*L
\* nodes, and so has the descent to any key.
C21_LogarithmicHeight ==
    /\ Pow2(level(root)) - 1 <= count
    /\ Height(root) <= 2 * level(root)
    /\ \A k \in Keys : DescentLength(root, k) <= 2 * level(root)

\* a delete has just brought a level-2 tree down to three entries, the
\* fewest a root of level 2 can have
C21_Witness ==
    /\ last.op = "delete" /\ last.ok
    /\ level(root) = 2
    /\ count = 3

\* C22: after any sequence of insert and delete calls, with an absent child
\* at level 0, every left child is exactly one level below its parent and
\* every right child is at its parent's level or exactly one below: no link
\* skips a level.
C22_ExactLevels ==
    \A n \in Nodes(root) :
        /\ level(left(n)) = level(n) - 1
        /\ level(right(n)) \in {level(n), level(n) - 1}

\* after a delete, a tree with a right link that stays on level 2 and right
\* links that go down one level
C22_Witness ==
    /\ last.op = "delete" /\ last.ok
    /\ level(root) = 2
    /\ level(right(root)) = 2
    /\ level(right(right(root))) = 1
    /\ count >= 5

\* C23: in every reachable state every node of the tree holds a pair whose
\* value is present; whichever key is deleted next, the pair handed back has
\* a present value and the tree left behind holds no value-less pair (the
\* search pair of KeyValueMap::delete is compared against only); and find
\* hands back a pair with a present value for every stored key.
C23_ValuesPresent ==
    /\ \A n \in Nodes(root) : val(value(n)) # Nil
    /\ \A k \in Keys :
          /\ \A n \in Nodes(delete(root, KeyValuePair(k, Nil))[1]) : val(value(n)) # Nil
          /\ delete(root, KeyValuePair(k, Nil))[2] # Nil =>
                 val(value(unwrap(delete(root, KeyValuePair(k, Nil))[2]))) \in
                     {Some(v) : v \in Values}
          /\ locate(root, k) # Nil =>
                 /\ find(root, k) # Nil
                 /\ val(unwrap(find(root, k))) \in {Some(v) : v \in Values}

\* the smaller of two keys has just been deleted: it sat in the root, above
\* the other one, and the value swap has acted
C23_Witness ==
    /\ last.op = "delete" /\ last.ok
    /\ count = 1
    /\ key(value(root)) = MaxKey - 1

\* ------------------------------------------------------------------------
\* Properties of the game of life (under SpecLife)
\* ------------------------------------------------------------------------
\* the cell (r, c) of a board of size n
CellAt(cells, n, r, c) == cells[r * n + c + 1]

\* the number of live cells among ((r+dr) mod n, (c+dc) mod n) for dr, dc in
\* {-1, 0, 1} not both 0, each of the eight counted
RECURSIVE SumOver(_, _, _, _, _)
SumOver(D, cells, n, r, c) ==
    IF D = {} THEN 0
    ELSE LET d == CHOOSE e \in D : TRUE
         IN as_u8(CellAt(cells, n, (r + d[1] + n) % n, (c + d[2] + n) % n))
            + SumOver(D \ {d}, cells, n, r, c)

TorusNeighbours(cells, n, r, c) ==
    SumOver(({-1, 0, 1} \X {-1, 0, 1}) \ {<<0, 0>>}, cells, n, r, c)

\* alive next iff exactly 3 live neighbours, or alive with exactly 2
LifeRule(cells, n, r, c) ==
    \/ TorusNeighbours(cells, n, r, c) = 3
    \/ CellAt(cells, n, r, c) /\ TorusNeighbours(cells, n, r, c) = 2

\* C24: for every board size N >= 1 and every cell (r, c), step sets the
\* target cell alive iff the source cell has exactly 3 live neighbours, or is
\* alive and has exactly 2, the eight neighbours being the cells
\* ((r+dr) mod N, (c+dc) mod N) of the torus, row 0 and column 0 included
\* (where delta -1 must lead to index N-1).
C24_TorusStep ==
    /\ lifepc = "y" =>
          \A r, c \in 0 .. (board_size - 1) :
              CellAt(ycells, board_size, r, c) = LifeRule(xcells, board_size, r, c)
    /\ lifepc = "x" =>
          \A r, c \in 0 .. (board_size - 1) :
              CellAt(xcells, board_size, r, c) = LifeRule(ycells, board_size, r, c)

====
